---------------------------- MODULE Spec2Model ----------------------------
(***************************************************************************)
(* The three Canvas administration scripts of rubriclab                    *)
(*   assignments/generate_assignments.py                                   *)
(*   assignments/generate_submissions.py                                   *)
(*   assignments/reset.py                                                  *)
(* as sequential programs over a remote course service.  Every remote      *)
(* call is one step that either succeeds or raises CanvasException; the    *)
(* configuration files are either readable or not.  The remote state       *)
(* (assignments, sections, enrollments) persists from one run to the next. *)
(***************************************************************************)
EXTENDS Integers, Sequences, FiniteSets, TLC

VARIABLES
    script,                \* the script that is running
    plan,                  \* the scripts still to run after this one
    run,                   \* number of the current run, from 1
    pc,                    \* position in the running script
    exit_code,             \* -1 while running, then the process exit code
    files,                 \* state of each YAML file: ok, missing, malformed
    course_list,           \* contents of courses.yml
    assignment_list,       \* contents of assignment.yml
    submission_list,       \* contents of submissions.yml (mutated by the run)
    ci,                    \* index of course_info in course_list
    ti,                    \* index of the assignment template
    i,                     \* replica number of range(1, N + 1)
    si,                    \* index of s in submission_list
    ai,                    \* index in the listed assignments
    ki,                    \* index in the listed sections
    ei,                    \* index in the listed enrollments
    existing_assignments,  \* names listed at generate_assignments.py:84
    assignments_to_delete, \* names computed at reset.py:78
    assignments,           \* the assignments a listing returned
    sections,              \* the sections a listing returned
    enrollments,           \* the enrollments a listing returned
    canvas_user,           \* user id get_user returned, 0 when none
    remote_assignments,    \* per course: the assignments the service holds
    remote_sections,       \* per course: the sections, each with enrollments
    remote_enrolled,       \* per course: users enrolled by enroll_user
    next_id,               \* id the service gives the next new assignment
    remote_start,          \* the assignments and sections before the first run
    fault_budget,          \* how many remote calls the service may fail
    faults,                \* remote calls that have failed so far
    trace,                 \* every remote call issued and every skip, in order
    names_after            \* per finished run: the assignment names per course

vars == <<script, plan, run, pc, exit_code, files, course_list, assignment_list,
          submission_list, ci, ti, i, si, ai, ki, ei, existing_assignments,
          assignments_to_delete, assignments, sections, enrollments,
          canvas_user, remote_assignments, remote_sections, remote_enrolled,
          next_id, remote_start, fault_budget, faults, trace, names_after>>

config_vars == <<files, course_list, assignment_list, fault_budget, remote_start>>
loop_vars == <<ci, ti, i, si, ai, ki, ei>>
local_vars == <<existing_assignments, assignments_to_delete, assignments,
                sections, enrollments, canvas_user>>
remote_vars == <<remote_assignments, remote_sections, remote_enrolled, next_id>>
run_vars == <<script, plan, run>>

-----------------------------------------------------------------------------
(* Bounds of the model.                                                    *)

MaxCourses == 2
MaxN == 2
MaxSubmissions == 2
MaxFailures == 1

-----------------------------------------------------------------------------
(* Constants of the scripts.                                               *)

ASSIGNMENT_TYPE == "online_text_entry"
DefaultAssignmentName == "Assignment"
DefaultNumCreate == 1
ResetDefaultAssignmentName == "Assignment"
ResetDefaultNumCreate == 1
DefaultTestStudentSection == "Test Students"
DefaultGraderSection == "Graders"

GENERATE_ASSIGNMENTS == "generate_assignments"
GENERATE_SUBMISSIONS == "generate_submissions"
RESET == "reset"
Scripts == {GENERATE_ASSIGNMENTS, GENERATE_SUBMISSIONS, RESET}

-----------------------------------------------------------------------------
(* Python helpers.                                                         *)

\* dict.get(key, default)
Get(d, key, default) == IF key \in DOMAIN d THEN d[key] ELSE default

Range(s) == {s[k] : k \in DOMAIN s}

Digit(d) ==
    CASE d = 0 -> "0" [] d = 1 -> "1" [] d = 2 -> "2" [] d = 3 -> "3"
      [] d = 4 -> "4" [] d = 5 -> "5" [] d = 6 -> "6" [] d = 7 -> "7"
      [] d = 8 -> "8" [] d = 9 -> "9"

\* str(n) of a non-negative integer, as an f-string renders it
RECURSIVE IntStr(_)
IntStr(n) == IF n < 10 THEN Digit(n) ELSE IntStr(n \div 10) \o Digit(n % 10)

\* f"{assignment_base_name}{i}"
AssignmentNameOffByOne(base, n) == base \o IntStr(n - 1)
AssignmentName(base, n) == base \o IntStr(n)

\* [assignment.name for assignment in course.get_assignments()]
NamesOf(listing) == [k \in DOMAIN listing |-> listing[k].name]

\* assignment_name in existing_assignments
NeverExists(name, existing) == FALSE
AlreadyExists(name, existing) == name \in Range(existing)

\* the listed objects whose id is not the given one
RECURSIVE WithoutId(_, _)
WithoutId(s, id) ==
    IF s = <<>> THEN <<>>
    ELSE IF Head(s).id = id THEN WithoutId(Tail(s), id)
    ELSE <<Head(s)>> \o WithoutId(Tail(s), id)

-----------------------------------------------------------------------------
(* Configuration files and remote states the runs start from.              *)

FileStates == {"ok", "missing", "malformed"}

CourseChoices(k) ==
    { [canvas_id |-> k, name |-> "Course"],
      [canvas_id |-> k, name |-> "Course", num_create_assignments |-> MaxN,
       test_student_section_name |-> "Sandbox", grader_section_name |-> "TAs"] }

TemplateChoices ==
    { [params |-> [submission_types |-> {"online_upload"}]],
      [name |-> "Grading", rubric_id |-> 7,
       params |-> [submission_types |-> {ASSIGNMENT_TYPE}]] }

SubmissionChoices ==
    { [sis_login_id |-> "alice", submission_params |-> [body |-> "text"]],
      [sis_login_id |-> "bob", submission_params |-> [body |-> "text"]] }

\* the directory of the service: sis_login_id -> user id
UserId(login) == IF login = "alice" THEN 101 ELSE 102

RECURSIVE CourseLists(_)
CourseLists(n) ==
    IF n = 0 THEN {<<>>}
    ELSE CourseLists(n - 1) \cup
         {Append(l, c) : l \in {m \in CourseLists(n - 1) : Len(m) = n - 1},
                         c \in CourseChoices(n)}

RECURSIVE ListsOver(_, _)
ListsOver(S, n) ==
    IF n = 0 THEN {<<>>}
    ELSE ListsOver(S, n - 1) \cup
         {Append(l, x) : l \in {m \in ListsOver(S, n - 1) : Len(m) = n - 1},
                         x \in S}

\* the assignment.yml files tried: none, one or two templates, in both orders
TemplateLists ==
    {<<>>} \cup {<<t>> : t \in TemplateChoices}
           \cup {<<t, u>> : t \in TemplateChoices, u \in TemplateChoices}

CourseIds == 1..MaxCourses

InitialAssignments ==
    { <<>>,
      << [id |-> 1, name |-> "Grading1", submission_types |-> {ASSIGNMENT_TYPE}],
         [id |-> 2, name |-> "Essay", submission_types |-> {ASSIGNMENT_TYPE}] >> }

InitialSections ==
    { <<>>,
      << [id |-> 1, name |-> "Test Students", enrollments |-> <<11, 12>>],
         [id |-> 2, name |-> "Graders", enrollments |-> <<21>>],
         [id |-> 3, name |-> "Sandbox", enrollments |-> <<31, 32>>],
         [id |-> 4, name |-> "Lecture", enrollments |-> <<41>>] >> }

NamesPerCourse == [c \in CourseIds |-> {a.name : a \in Range(remote_assignments[c])}]

InitRun(first, rest) ==
    /\ script = first
    /\ plan = rest
    /\ run = 1
    /\ pc = "load_courses"
    /\ exit_code = -1
    /\ ci = 1 /\ ti = 1 /\ i = 1 /\ si = 1 /\ ai = 1 /\ ki = 1 /\ ei = 1
    /\ existing_assignments = <<>>
    /\ assignments_to_delete = <<>>
    /\ assignments = <<>>
    /\ sections = <<>>
    /\ enrollments = <<>>
    /\ canvas_user = 0
    /\ remote_enrolled = [c \in CourseIds |-> {}]
    /\ faults = 0
    /\ trace = <<>>
    /\ names_after = <<>>

InitConfig(useTemplates, useSubmissions) ==
    /\ \E fc \in FileStates, fa \in FileStates, fs \in FileStates :
          /\ ~useTemplates => fa = "ok"
          /\ ~useSubmissions => fs = "ok"
          /\ files = [courses |-> fc, assignments |-> fa, submissions |-> fs]
    /\ course_list \in IF files.courses = "ok" THEN CourseLists(MaxCourses) ELSE {<<>>}
    /\ assignment_list \in
          IF useTemplates /\ files.assignments = "ok"
          THEN TemplateLists ELSE {<<>>}
    /\ submission_list \in
          IF useSubmissions /\ files.submissions = "ok"
          THEN ListsOver(SubmissionChoices, MaxSubmissions) ELSE {<<>>}

InitRemote(anySections) ==
    /\ \E r \in InitialAssignments :
          /\ remote_assignments = [c \in CourseIds |-> r]
          /\ next_id = Len(r) + 1
    /\ \E l \in (IF anySections THEN InitialSections ELSE {<<>>}) :
          remote_sections = [c \in CourseIds |-> l]
    /\ remote_start = [assignments |-> remote_assignments, sections |-> remote_sections]

\* the given script, and then the scripts of rest, one after another
InitPlan(first, rest, budget) ==
    /\ InitRun(first, rest)
    /\ fault_budget = budget
    /\ InitConfig(first # GENERATE_SUBMISSIONS, first = GENERATE_SUBMISSIONS)
    /\ InitRemote(first # GENERATE_ASSIGNMENTS \/ RESET \in Range(rest))

Init == \E first \in Scripts : InitPlan(first, <<>>, MaxFailures)

InitGA == InitPlan(GENERATE_ASSIGNMENTS, <<>>, MaxFailures)

InitReset == InitPlan(RESET, <<>>, MaxFailures)

InitTwice == InitPlan(GENERATE_ASSIGNMENTS, <<GENERATE_ASSIGNMENTS>>, MaxFailures)

\* the service never fails during the cycle
InitCycle == InitPlan(GENERATE_ASSIGNMENTS, <<RESET, GENERATE_ASSIGNMENTS>>, 0)

-----------------------------------------------------------------------------
(* Steps shared by the scripts.                                            *)

course_info == course_list[ci]

\* what a remote call may do: answer, or raise CanvasException
Outcomes == IF faults < fault_budget THEN BOOLEAN ELSE {TRUE}

Fault(ok) == faults' = IF ok THEN faults ELSE faults + 1

\* one entry of the transcript: the call, the course entry it is made for, the
\* name and id of the object it is about, the login concerned, the outcome
Event(op, name, id, who, ok) ==
    [run |-> run, op |-> op, course |-> ci, name |-> name, id |-> id,
     who |-> who, ok |-> ok]

Log(op, name, id, who, ok) == trace' = Append(trace, Event(op, name, id, who, ok))

\* exit(code), or the end of the script (code 0), or a traceback (code 1)
Exit(code) ==
    /\ pc' = "done"
    /\ exit_code' = code
    /\ names_after' = Append(names_after, NamesPerCourse)


\* the uncaught exception of a remote call outside every try block
Traceback == Exit(1)

LoadCourses(next) ==
    /\ pc = "load_courses"
    /\ IF files.courses = "ok"
       THEN pc' = next /\ UNCHANGED <<exit_code, names_after>>
       ELSE Exit(1)
    /\ UNCHANGED <<run_vars, config_vars, submission_list, loop_vars, local_vars,
                   remote_vars, faults, trace>>

\* for course_info in course_list: the loop head
CourseLoop ==
    /\ pc = "course_loop"
    /\ IF ci <= Len(course_list)
       THEN /\ pc' = "get_course"
            /\ ti' = 1 /\ i' = 1 /\ si' = 1 /\ ai' = 1 /\ ki' = 1 /\ ei' = 1
            /\ UNCHANGED <<exit_code, names_after>>
       ELSE /\ Exit(0)
            /\ UNCHANGED <<ti, i, si, ai, ki, ei>>
    /\ UNCHANGED <<run_vars, config_vars, submission_list, ci, local_vars,
                   remote_vars, faults, trace>>

\* course = canvas.get_course(course_canvas_id), except CanvasException: continue
GetCourse(next) ==
    /\ pc = "get_course"
    /\ \E ok \in Outcomes :
          /\ Fault(ok)
          /\ Log("get_course", "", 0, "", ok)
          /\ IF ok
             THEN pc' = next /\ UNCHANGED loop_vars
             ELSE /\ pc' = "course_loop"
                  /\ ci' = ci + 1
                  /\ UNCHANGED <<ti, i, si, ai, ki, ei>>
    /\ UNCHANGED <<run_vars, exit_code, config_vars, submission_list, local_vars,
                   remote_vars, names_after>>

-----------------------------------------------------------------------------
(* generate_assignments.py                                                 *)

num_create_assignments == Get(course_info, "num_create_assignments", DefaultNumCreate)
assignment == assignment_list[ti]
assignment_base_name == Get(assignment, "name", DefaultAssignmentName)
assignment_rubric_id == Get(assignment, "rubric_id", 0)
assignment_name == AssignmentName(assignment_base_name, i)
assignment_params ==
    [name |-> assignment_name,
     submission_types |-> Get(Get(assignment, "params", <<>>), "submission_types", {"none"})]

GA_LoadCourses ==
    /\ script = GENERATE_ASSIGNMENTS
    /\ LoadCourses("load_assignments")

GA_LoadAssignments ==
    /\ script = GENERATE_ASSIGNMENTS
    /\ pc = "load_assignments"
    /\ IF files.assignments = "ok"
       THEN pc' = "course_loop" /\ UNCHANGED <<exit_code, names_after>>
       ELSE Exit(1)
    /\ UNCHANGED <<run_vars, config_vars, submission_list, loop_vars, local_vars,
                   remote_vars, faults, trace>>

GA_CourseLoop ==
    /\ script = GENERATE_ASSIGNMENTS
    /\ CourseLoop

GA_GetCourse ==
    /\ script = GENERATE_ASSIGNMENTS
    /\ GetCourse("get_assignments")

\* existing_assignments = [assignment.name for assignment in course.get_assignments()]
GA_GetAssignments ==
    /\ script = GENERATE_ASSIGNMENTS
    /\ pc = "get_assignments"
    /\ \E ok \in Outcomes :
          /\ Fault(ok)
          /\ Log("get_assignments", "", 0, "", ok)
          /\ IF ok
             THEN /\ existing_assignments' =
                        NamesOf(remote_assignments[course_info.canvas_id])
                  /\ pc' = "replica_loop"
                  /\ UNCHANGED <<exit_code, names_after>>
             ELSE /\ Traceback
                  /\ UNCHANGED existing_assignments
    /\ UNCHANGED <<run_vars, config_vars, submission_list, loop_vars,
                   assignments_to_delete, assignments, sections, enrollments,
                   canvas_user, remote_vars>>

\* the heads of the two nested loops and the existence check
GA_ReplicaLoop ==
    /\ script = GENERATE_ASSIGNMENTS
    /\ pc = "replica_loop"
    /\ IF ti > Len(assignment_list)
       THEN /\ ci' = ci + 1
            /\ pc' = "course_loop"
            /\ UNCHANGED <<ti, i, trace>>
       ELSE IF i > num_create_assignments
       THEN /\ ti' = ti + 1
            /\ i' = 1
            /\ UNCHANGED <<ci, pc, trace>>
       ELSE IF AlreadyExists(assignment_name, existing_assignments)
       THEN /\ Log("skip", assignment_name, 0, "", TRUE)
            /\ i' = i + 1
            /\ UNCHANGED <<ci, ti, pc>>
       ELSE /\ pc' = "create_assignment"
            /\ UNCHANGED <<ci, ti, i, trace>>
    /\ UNCHANGED <<run_vars, exit_code, config_vars, submission_list, si, ai, ki, ei,
                   local_vars, remote_vars, faults, names_after>>

\* the next replica of the same template
ContinueReplicas ==
    /\ i' = i + 1
    /\ pc' = "replica_loop"
    /\ UNCHANGED <<ci, ti>>

AbortCourse ==
    /\ ci' = ci + 1
    /\ pc' = "course_loop"
    /\ UNCHANGED <<ti, i>>

\* except CanvasException of the create / associate block: print, go on
CreateErrorHandler == ContinueReplicas

\* new_assignment = course.create_assignment(assignment=assignment_params)
GA_CreateAssignment ==
    /\ script = GENERATE_ASSIGNMENTS
    /\ pc = "create_assignment"
    /\ \E ok \in Outcomes :
          /\ Fault(ok)
          /\ Log("create_assignment", assignment_name, next_id, "", ok)
          /\ IF ok
             THEN /\ remote_assignments' =
                        [remote_assignments EXCEPT ![course_info.canvas_id] =
                            Append(@, [id |-> next_id] @@ assignment_params)]
                  /\ next_id' = next_id + 1
                  /\ IF assignment_rubric_id # 0
                     THEN pc' = "create_rubric_association" /\ UNCHANGED <<ci, ti, i>>
                     ELSE ContinueReplicas
             ELSE /\ CreateErrorHandler
                  /\ UNCHANGED <<remote_assignments, next_id>>
    /\ UNCHANGED <<run_vars, exit_code, config_vars, submission_list, si, ai, ki, ei,
                   local_vars, remote_sections, remote_enrolled, names_after>>

\* course.create_rubric_association(rubric_association={...})
GA_CreateRubricAssociation ==
    /\ script = GENERATE_ASSIGNMENTS
    /\ pc = "create_rubric_association"
    /\ \E ok \in Outcomes :
          /\ Fault(ok)
          /\ Log("create_rubric_association", assignment_name, next_id - 1, "", ok)
          /\ IF ok THEN ContinueReplicas ELSE CreateErrorHandler
    /\ UNCHANGED <<run_vars, exit_code, config_vars, submission_list, si, ai, ki, ei,
                   local_vars, remote_vars, names_after>>

NextGA ==
    \/ GA_LoadCourses
    \/ GA_LoadAssignments
    \/ GA_CourseLoop
    \/ GA_GetCourse
    \/ GA_GetAssignments
    \/ GA_ReplicaLoop
    \/ GA_CreateAssignment
    \/ GA_CreateRubricAssociation

-----------------------------------------------------------------------------
(* reset.py                                                                *)

\* f"{a.get('name', 'Assignment')}{i}"
ResetNameOtherDefault(a, n) == Get(a, "name", "assignment") \o IntStr(n)
ResetName(a, n) == Get(a, "name", ResetDefaultAssignmentName) \o IntStr(n)

\* the list comprehension: for a in assignment_list for i in range(1, N + 1)
RECURSIVE AssignmentsToDelete(_, _)
AssignmentsToDelete(templates, info) ==
    IF templates = <<>> THEN <<>>
    ELSE [n \in 1..Get(info, "num_create_assignments", ResetDefaultNumCreate) |->
             ResetName(Head(templates), n)]
         \o AssignmentsToDelete(Tail(templates), info)

\* assignment.name in assignments_to_delete
EveryAssignment(name, targets) == TRUE
InDeletionTargets(name, targets) == name \in Range(targets)

\* section.name in [test_student_section_name, grader_section_name]
SectionMatches(name, info) ==
    name \in { Get(info, "test_student_section_name", DefaultTestStudentSection),
               Get(info, "grader_section_name", DefaultGraderSection) }

section == sections[ki]

\* the section as the service holds it now
RemoteSection(c, id) ==
    CHOOSE x \in Range(remote_sections[c]) : x.id = id

R_LoadCourses ==
    /\ script = RESET
    /\ LoadCourses("course_loop")

R_CourseLoop ==
    /\ script = RESET
    /\ CourseLoop

R_GetCourse ==
    /\ script = RESET
    /\ GetCourse("load_assignments")

\* assignment.yml is opened inside the course loop, then the targets are compiled
R_LoadAssignments ==
    /\ script = RESET
    /\ pc = "load_assignments"
    /\ IF files.assignments = "ok"
       THEN /\ assignments_to_delete' = AssignmentsToDelete(assignment_list, course_info)
            /\ pc' = "get_assignments"
            /\ UNCHANGED <<exit_code, names_after>>
       ELSE /\ Exit(1)
            /\ UNCHANGED assignments_to_delete
    /\ UNCHANGED <<run_vars, config_vars, submission_list, loop_vars,
                   existing_assignments, assignments, sections, enrollments,
                   canvas_user, remote_vars, faults, trace>>

\* for assignment in course.get_assignments(): the listing, outside every try
R_GetAssignments ==
    /\ script = RESET
    /\ pc = "get_assignments"
    /\ \E ok \in Outcomes :
          /\ Fault(ok)
          /\ Log("get_assignments", "", 0, "", ok)
          /\ IF ok
             THEN /\ assignments' = remote_assignments[course_info.canvas_id]
                  /\ pc' = "delete_loop"
                  /\ UNCHANGED <<exit_code, names_after>>
             ELSE /\ Traceback
                  /\ UNCHANGED assignments
    /\ UNCHANGED <<run_vars, config_vars, submission_list, loop_vars,
                   existing_assignments, assignments_to_delete, sections,
                   enrollments, canvas_user, remote_vars>>

R_DeleteLoop ==
    /\ script = RESET
    /\ pc = "delete_loop"
    /\ IF ai > Len(assignments)
       THEN pc' = "get_sections" /\ UNCHANGED ai
       ELSE IF InDeletionTargets(assignments[ai].name, assignments_to_delete)
       THEN pc' = "delete_assignment" /\ UNCHANGED ai
       ELSE ai' = ai + 1 /\ UNCHANGED pc
    /\ UNCHANGED <<run_vars, exit_code, config_vars, submission_list, ci, ti, i, si,
                   ki, ei, local_vars, remote_vars, faults, trace, names_after>>

\* assignment.delete(), except CanvasException: print
R_DeleteAssignment ==
    /\ script = RESET
    /\ pc = "delete_assignment"
    /\ \E ok \in Outcomes :
          /\ Fault(ok)
          /\ Log("delete_assignment", assignments[ai].name, assignments[ai].id, "", ok)
          /\ remote_assignments' =
                IF ok
                THEN [remote_assignments EXCEPT ![course_info.canvas_id] =
                         WithoutId(@, assignments[ai].id)]
                ELSE remote_assignments
    /\ ai' = ai + 1
    /\ pc' = "delete_loop"
    /\ UNCHANGED <<run_vars, exit_code, config_vars, submission_list, ci, ti, i, si,
                   ki, ei, local_vars, remote_sections, remote_enrolled, next_id,
                   names_after>>

\* for section in course.get_sections(): the listing, outside every try
R_GetSections ==
    /\ script = RESET
    /\ pc = "get_sections"
    /\ \E ok \in Outcomes :
          /\ Fault(ok)
          /\ Log("get_sections", "", 0, "", ok)
          /\ IF ok
             THEN /\ sections' = remote_sections[course_info.canvas_id]
                  /\ pc' = "section_loop"
                  /\ UNCHANGED <<exit_code, names_after>>
             ELSE /\ Traceback
                  /\ UNCHANGED sections
    /\ UNCHANGED <<run_vars, config_vars, submission_list, loop_vars,
                   existing_assignments, assignments_to_delete, assignments,
                   enrollments, canvas_user, remote_vars>>

R_SectionLoop ==
    /\ script = RESET
    /\ pc = "section_loop"
    /\ IF ki > Len(sections)
       THEN /\ ci' = ci + 1
            /\ pc' = "course_loop"
            /\ UNCHANGED ki
       ELSE IF SectionMatches(section.name, course_info)
       THEN /\ pc' = "get_enrollments"
            /\ UNCHANGED <<ci, ki>>
       ELSE /\ ki' = ki + 1
            /\ UNCHANGED <<ci, pc>>
    /\ UNCHANGED <<run_vars, exit_code, config_vars, submission_list, ti, i, si, ai,
                   ei, local_vars, remote_vars, faults, trace, names_after>>

\* on to the next section
NextSection ==
    /\ ki' = ki + 1
    /\ pc' = "section_loop"
    /\ UNCHANGED ei

\* on to section.delete() although the section was not emptied
DeleteAnyway ==
    /\ pc' = "delete_section"
    /\ UNCHANGED <<ki, ei>>

\* except CanvasException of the section block: print, next section
SectionErrorHandler == NextSection

\* for enrollment in section.get_enrollments(): the listing, inside the try
R_GetEnrollments ==
    /\ script = RESET
    /\ pc = "get_enrollments"
    /\ \E ok \in Outcomes :
          /\ Fault(ok)
          /\ Log("get_enrollments", section.name, section.id, "", ok)
          /\ IF ok
             THEN /\ enrollments' =
                        RemoteSection(course_info.canvas_id, section.id).enrollments
                  /\ ei' = 1
                  /\ pc' = "deactivate"
                  /\ UNCHANGED ki
             ELSE /\ SectionErrorHandler
                  /\ UNCHANGED enrollments
    /\ UNCHANGED <<run_vars, exit_code, config_vars, submission_list, ci, ti, i, si,
                   ai, existing_assignments, assignments_to_delete, assignments,
                   sections, canvas_user, remote_vars, names_after>>

\* enrollment.deactivate(task="delete") for the next enrollment of the section
R_Deactivate ==
    /\ script = RESET
    /\ pc = "deactivate"
    /\ IF ei > Len(enrollments)
       THEN /\ pc' = "delete_section"
            /\ UNCHANGED <<ki, ei, remote_sections, faults, trace>>
       ELSE \E ok \in Outcomes :
          /\ Fault(ok)
          /\ Log("deactivate", section.name, enrollments[ei], "", ok)
          /\ IF ok
             THEN /\ remote_sections' =
                        [remote_sections EXCEPT ![course_info.canvas_id] =
                            [k \in DOMAIN @ |->
                                IF @[k].id = section.id
                                THEN [@[k] EXCEPT !.enrollments =
                                         SelectSeq(@, LAMBDA e : e # enrollments[ei])]
                                ELSE @[k]]]
                  /\ ei' = ei + 1
                  /\ UNCHANGED <<ki, pc>>
             ELSE /\ SectionErrorHandler
                  /\ UNCHANGED remote_sections
    /\ UNCHANGED <<run_vars, exit_code, config_vars, submission_list, ci, ti, i, si,
                   ai, local_vars, remote_assignments, remote_enrolled, next_id,
                   names_after>>

\* section.delete(), reached when the loop over the enrollments is over
R_DeleteSection ==
    /\ script = RESET
    /\ pc = "delete_section"
    /\ \E ok \in Outcomes :
          /\ Fault(ok)
          /\ Log("delete_section", section.name, section.id, "", ok)
          /\ IF ok
             THEN /\ remote_sections' =
                        [remote_sections EXCEPT ![course_info.canvas_id] =
                            WithoutId(@, section.id)]
                  /\ NextSection
             ELSE /\ SectionErrorHandler
                  /\ UNCHANGED remote_sections
    /\ UNCHANGED <<run_vars, exit_code, config_vars, submission_list, ci, ti, i, si,
                   ai, local_vars, remote_assignments, remote_enrolled, next_id,
                   names_after>>

NextReset ==
    \/ R_LoadCourses
    \/ R_CourseLoop
    \/ R_GetCourse
    \/ R_LoadAssignments
    \/ R_GetAssignments
    \/ R_DeleteLoop
    \/ R_DeleteAssignment
    \/ R_GetSections
    \/ R_SectionLoop
    \/ R_GetEnrollments
    \/ R_Deactivate
    \/ R_DeleteSection

-----------------------------------------------------------------------------
(* generate_submissions.py                                                 *)

s == submission_list[si]
a == assignments[ai]

GS_LoadCourses ==
    /\ script = GENERATE_SUBMISSIONS
    /\ LoadCourses("load_submissions")

GS_LoadSubmissions ==
    /\ script = GENERATE_SUBMISSIONS
    /\ pc = "load_submissions"
    /\ IF files.submissions = "ok"
       THEN pc' = "course_loop" /\ UNCHANGED <<exit_code, names_after>>
       ELSE Exit(1)
    /\ UNCHANGED <<run_vars, config_vars, submission_list, loop_vars, local_vars,
                   remote_vars, faults, trace>>

GS_CourseLoop ==
    /\ script = GENERATE_SUBMISSIONS
    /\ CourseLoop

GS_GetCourse ==
    /\ script = GENERATE_SUBMISSIONS
    /\ GetCourse("get_user")

\* except CanvasException of the enrollment block: print, continue
NextSubmission ==
    /\ si' = si + 1
    /\ pc' = "get_user"

\* for s in submission_list: canvas_user = canvas.get_user(s["sis_login_id"], ...)
GS_GetUser ==
    /\ script = GENERATE_SUBMISSIONS
    /\ pc = "get_user"
    /\ IF si > Len(submission_list)
       THEN /\ pc' = "get_assignments"
            /\ UNCHANGED <<si, canvas_user, faults, trace>>
       ELSE \E ok \in Outcomes :
               /\ Fault(ok)
               /\ Log("get_user", "", 0, s.sis_login_id, ok)
               /\ IF ok
                  THEN /\ canvas_user' = UserId(s.sis_login_id)
                       /\ pc' = "enroll_user"
                       /\ UNCHANGED si
                  ELSE /\ NextSubmission
                       /\ UNCHANGED canvas_user
    /\ UNCHANGED <<run_vars, exit_code, config_vars, submission_list, ci, ti, i, ai,
                   ki, ei, existing_assignments, assignments_to_delete, assignments,
                   sections, enrollments, remote_vars, names_after>>

\* course.enroll_user(canvas_user.id, "StudentEnrollment", enrollment_state="active")
\* and then s["submission_params"]["user_id"] = canvas_user.id
GS_EnrollUser ==
    /\ script = GENERATE_SUBMISSIONS
    /\ pc = "enroll_user"
    /\ \E ok \in Outcomes :
          /\ Fault(ok)
          /\ Log("enroll_user", "", canvas_user, s.sis_login_id, ok)
          /\ IF ok
             THEN /\ remote_enrolled' =
                        [remote_enrolled EXCEPT ![course_info.canvas_id] =
                            @ \cup {canvas_user}]
                  /\ submission_list' =
                        [submission_list EXCEPT ![si].submission_params =
                            [user_id |-> canvas_user] @@ @]
             ELSE UNCHANGED <<remote_enrolled, submission_list>>
    /\ NextSubmission
    /\ UNCHANGED <<run_vars, exit_code, config_vars, ci, ti, i, ai, ki, ei,
                   local_vars, remote_assignments, remote_sections, next_id,
                   names_after>>

\* assignments = course.get_assignments(), listed inside the try
GS_GetAssignments ==
    /\ script = GENERATE_SUBMISSIONS
    /\ pc = "get_assignments"
    /\ \E ok \in Outcomes :
          /\ Fault(ok)
          /\ Log("get_assignments", "", 0, "", ok)
          /\ IF ok
             THEN /\ assignments' = remote_assignments[course_info.canvas_id]
                  /\ ai' = 1
                  /\ si' = 1
                  /\ pc' = "submit_loop"
                  /\ UNCHANGED ci
             ELSE /\ ci' = ci + 1
                  /\ pc' = "course_loop"
                  /\ UNCHANGED <<assignments, ai, si>>
    /\ UNCHANGED <<run_vars, exit_code, config_vars, submission_list, ti, i, ki, ei,
                   existing_assignments, assignments_to_delete, sections,
                   enrollments, canvas_user, remote_vars, names_after>>

\* for a in assignments: if ASSIGNMENT_TYPE in a.submission_types: for s in ...
GS_SubmitLoop ==
    /\ script = GENERATE_SUBMISSIONS
    /\ pc = "submit_loop"
    /\ IF ai > Len(assignments)
       THEN /\ ci' = ci + 1
            /\ pc' = "course_loop"
            /\ UNCHANGED <<ai, si>>
       ELSE IF ASSIGNMENT_TYPE \notin a.submission_types \/ si > Len(submission_list)
       THEN /\ ai' = ai + 1
            /\ si' = 1
            /\ UNCHANGED <<ci, pc>>
       ELSE /\ pc' = "submit"
            /\ UNCHANGED <<ci, ai, si>>
    /\ UNCHANGED <<run_vars, exit_code, config_vars, submission_list, ti, i, ki, ei,
                   local_vars, remote_vars, faults, trace, names_after>>

\* a.submit(submission=s["submission_params"]), except CanvasException: print
GS_Submit ==
    /\ script = GENERATE_SUBMISSIONS
    /\ pc = "submit"
    /\ \E ok \in Outcomes :
          /\ Fault(ok)
          /\ Log("submit", a.name, Get(s.submission_params, "user_id", 0),
                 s.sis_login_id, ok)
    /\ si' = si + 1
    /\ pc' = "submit_loop"
    /\ UNCHANGED <<run_vars, exit_code, config_vars, submission_list, ci, ti, i, ai,
                   ki, ei, local_vars, remote_vars, names_after>>

NextGS ==
    \/ GS_LoadCourses
    \/ GS_LoadSubmissions
    \/ GS_CourseLoop
    \/ GS_GetCourse
    \/ GS_GetUser
    \/ GS_EnrollUser
    \/ GS_GetAssignments
    \/ GS_SubmitLoop
    \/ GS_Submit

-----------------------------------------------------------------------------
(* One script after another against the same remote service.               *)

\* the next script of the plan starts: a new process reads the files again
NextRun ==
    /\ pc = "done"
    /\ plan # <<>>
    /\ script' = Head(plan)
    /\ plan' = Tail(plan)
    /\ run' = run + 1
    /\ pc' = "load_courses"
    /\ exit_code' = -1
    /\ ci' = 1 /\ ti' = 1 /\ i' = 1 /\ si' = 1 /\ ai' = 1 /\ ki' = 1 /\ ei' = 1
    /\ existing_assignments' = <<>>
    /\ assignments_to_delete' = <<>>
    /\ assignments' = <<>>
    /\ sections' = <<>>
    /\ enrollments' = <<>>
    /\ canvas_user' = 0
    /\ submission_list' =
          [k \in DOMAIN submission_list |->
              [submission_list[k] EXCEPT !.submission_params =
                  [key \in DOMAIN @ \ {"user_id"} |-> @[key]]]]
    /\ UNCHANGED <<config_vars, remote_vars, faults, trace, names_after>>

\* one run of one of the three scripts
Spec == Init /\ [][NextGA \/ NextReset \/ NextGS]_vars


\* one run of generate_assignments.py
SpecGA == InitGA /\ [][NextGA]_vars

\* one run of reset.py
SpecReset == InitReset /\ [][NextReset]_vars

\* generate_assignments.py run twice in a row
SpecTwice == InitTwice /\ [][NextGA \/ NextRun]_vars

\* generate_assignments.py, then reset.py, then generate_assignments.py again
SpecCycle == InitCycle /\ [][NextGA \/ NextReset \/ NextRun]_vars

-----------------------------------------------------------------------------
(* What the transcript of a run shows.                                     *)

Positions == DOMAIN trace

\* the entries of run r for the course entry number c
EventsOf(r, c) == SelectSeq(trace, LAMBDA e : e.run = r /\ e.course = c)

\* the assignment names run r skipped or tried to create for course entry c
Considered(r, c) ==
    LET es == SelectSeq(EventsOf(r, c),
                        LAMBDA e : e.op \in {"skip", "create_assignment"})
    IN  [k \in DOMAIN es |-> es[k].name]

\* run r listed the assignments of course entry c
Listed(r, c) ==
    \E p \in Positions :
        /\ trace[p].run = r /\ trace[p].course = c
        /\ trace[p].op = "get_assignments" /\ trace[p].ok

\* run r tried to fetch course entry c
Visited(r, c) ==
    \E p \in Positions :
        trace[p].run = r /\ trace[p].course = c /\ trace[p].op = "get_course"

\* the current run is over with course entry c
Passed(c) == ci > c \/ (pc = "done" /\ exit_code = 0)

\* the names the configuration asks for: base name (default "Assignment")
\* followed by the decimal replica number, template by template
RECURSIVE NamesWanted(_, _)
NamesWanted(templates, info) ==
    IF templates = <<>> THEN <<>>
    ELSE LET base == IF "name" \in DOMAIN Head(templates)
                     THEN Head(templates).name ELSE "Assignment"
             count == IF "num_create_assignments" \in DOMAIN info
                      THEN info.num_create_assignments ELSE 1
         IN  [n \in 1..count |-> base \o ToString(n)]
             \o NamesWanted(Tail(templates), info)

Wanted(c) == NamesWanted(assignment_list, course_list[c])

IsPrefix(u, v) == Len(u) <= Len(v) /\ \A k \in DOMAIN u : u[k] = v[k]

MutatingOps ==
    {"create_assignment", "create_rubric_association", "delete_assignment",
     "deactivate", "delete_section", "enroll_user", "submit"}

-----------------------------------------------------------------------------
(* C1  Idempotence of ensure_assignments.                                  *)

\* C1, as stated: the second of two runs of generate_assignments in a row
\* issues no create_assignment call.
C1_SecondRunNeverCreates ==
    \A p \in Positions :
        ~(trace[p].run = 2 /\ trace[p].op = "create_assignment")

\* the first run left the name n of course entry c uncreated
MissedByFirstRun(c, n) ==
    \/ ~Listed(1, c)
    \/ \E q \in Positions :
          /\ trace[q].run = 1 /\ trace[q].course = c
          /\ trace[q].op = "create_assignment" /\ trace[q].name = n
          /\ ~trace[q].ok

\* C1, amended: the second run issues a create only for a name whose create
\* failed in the first run, or in a course whose assignments the first run
\* never listed; a course the first run went through without a failure has
\* all its template x replica names skipped by the second run, none created.
C1_SecondRunCreatesOnlyMissed ==
    /\ \A p \in Positions :
          (trace[p].run = 2 /\ trace[p].op = "create_assignment")
             => MissedByFirstRun(trace[p].course, trace[p].name)
    /\ \A c \in DOMAIN course_list :
          ( /\ run = 2 /\ Listed(2, c) /\ Passed(c)
            /\ Listed(1, c)
            /\ \A q \in Positions :
                  (trace[q].run = 1 /\ trace[q].course = c) => trace[q].ok )
          => /\ Considered(2, c) = Wanted(c)
             /\ \A q \in Positions :
                   (trace[q].run = 2 /\ trace[q].course = c)
                      => trace[q].op # "create_assignment"

\* the second run is over; the first created two names of a course, without
\* any failure, and the second skipped them
C1_Witness ==
    /\ run = 2 /\ pc = "done" /\ exit_code = 0
    /\ faults = 0
    /\ \E p \in Positions, q \in Positions :
          /\ p # q
          /\ trace[p].run = 1 /\ trace[p].op = "create_assignment"
          /\ trace[q].run = 1 /\ trace[q].op = "create_assignment"
          /\ trace[p].course = trace[q].course
          /\ Len(Considered(2, trace[p].course)) >= 2
    /\ \A p \in Positions : trace[p].run = 2 => trace[p].op # "create_assignment"

-----------------------------------------------------------------------------
(* C2  Deterministic naming order.                                         *)

\* C2: the names generate_assignments considers (skips or creates) for a
\* course are, in order, base1..baseN of the first template, then base1..baseN
\* of the second, and so on: at every moment a prefix of that sequence, and
\* the whole sequence once the loop over the course's templates is over.
C2_NamingOrder ==
    \A c \in DOMAIN course_list :
        /\ IsPrefix(Considered(1, c), Wanted(c))
        /\ (Listed(1, c) /\ Passed(c)) => Considered(1, c) = Wanted(c)

\* a course with two replicas of two templates has been gone through
C2_Witness ==
    \E c \in DOMAIN course_list :
        /\ Listed(1, c) /\ Passed(c)
        /\ Len(assignment_list) = 2
        /\ Len(Considered(1, c)) = 2 * MaxN
        /\ \E p \in Positions : trace[p].course = c /\ trace[p].op = "skip"
        /\ \E p \in Positions : trace[p].course = c /\ trace[p].op = "create_assignment"

-----------------------------------------------------------------------------
(* C3  Partial-failure isolation.                                          *)

FailedCreate(p) ==
    /\ trace[p].op \in {"create_assignment", "create_rubric_association"}
    /\ ~trace[p].ok

\* C3: after a create_assignment or a rubric association has failed for one
\* replica, the loops go on: the very next name of the course is considered
\* next, every name of the course that is not in the listing gets its create
\* call, and the courses after it are fetched; the run is not ended by it.
C3_FailureIsolation ==
    \A p \in Positions :
        FailedCreate(p) =>
            LET c == trace[p].course
                done == Len(SelectSeq(SubSeq(trace, 1, p),
                               LAMBDA e : e.course = c /\
                                          e.op \in {"skip", "create_assignment"}))
            IN  /\ Passed(c) => Len(Considered(1, c)) = Len(Wanted(c))
                /\ (p < Len(trace) /\ done < Len(Wanted(c))) =>
                      /\ trace[p + 1].course = c
                      /\ trace[p + 1].op \in {"skip", "create_assignment"}
                      /\ trace[p + 1].name = Wanted(c)[done + 1]
                /\ (p < Len(trace) /\ done = Len(Wanted(c))) =>
                      /\ trace[p + 1].course = c + 1
                      /\ trace[p + 1].op = "get_course"
                /\ pc = "done" =>
                      /\ Len(Considered(1, c)) = Len(Wanted(c))
                      /\ c = Len(course_list) \/ Visited(1, c + 1)

\* the create of the first replica of the first template failed in the first
\* course; the later replicas and templates were tried, and the next course
C3_Witness ==
    /\ pc = "done"
    /\ Len(course_list) = 2
    /\ \E p \in Positions :
          /\ FailedCreate(p) /\ trace[p].course = 1 /\ trace[p].op = "create_assignment"
          /\ Len(Wanted(1)) = 2 * MaxN
          /\ trace[p].name = Wanted(1)[1]
          /\ \E q \in Positions :
                /\ q > p /\ trace[q].course = 1 /\ trace[q].ok
                /\ trace[q].op = "create_assignment"
                /\ trace[q].name = Wanted(1)[2 * MaxN]
          /\ \E q \in Positions :
                /\ trace[q].course = 2 /\ trace[q].ok
                /\ trace[q].op = "create_assignment"

-----------------------------------------------------------------------------
(* C4  Reset symmetry.                                                     *)

\* reset.py holds the deletion targets of the current course entry
TargetsCompiled ==
    /\ script = RESET
    /\ pc \in {"get_assignments", "delete_loop", "delete_assignment",
               "get_sections", "section_loop", "get_enrollments", "deactivate",
               "delete_section"}

\* C4: with the same configuration, the names reset compiles for deletion in
\* a course are the names generate_assignments considered for it, and after
\* generate_assignments, reset, generate_assignments with no failing call the
\* course holds the same set of assignment names as before the reset.
C4_ResetSymmetry ==
    /\ TargetsCompiled =>
          Range(assignments_to_delete) = Range(Considered(1, ci))
    /\ (run = 3 /\ pc = "done" /\ exit_code = 0) =>
          names_after[3] = names_after[1]

\* the cycle is over: the reset removed names of a course and the last run
\* brought them back
C4_Witness ==
    /\ run = 3 /\ pc = "done" /\ exit_code = 0
    /\ \E c \in DOMAIN course_list :
          /\ Len(Wanted(c)) = 2 * MaxN
          /\ names_after[2][c] # names_after[1][c]
          /\ names_after[2][c] \cap Range(Wanted(c)) = {}
          /\ Range(Wanted(c)) \subseteq names_after[3][c]
          /\ "Essay" \in names_after[3][c]
          /\ names_after[3][c] = names_after[1][c]

-----------------------------------------------------------------------------
(* C5  Missing test-student section.                                       *)

TestStudentSectionOf(info) ==
    IF "test_student_section_name" \in DOMAIN info
    THEN info.test_student_section_name ELSE "Test Students"

HasTestStudentSection(c) ==
    \E x \in Range(remote_sections[course_list[c].canvas_id]) :
        x.name = TestStudentSectionOf(course_list[c])

\* C5: generate_submissions issues no enroll_user and no submit call for a
\* course that has no section named as the test-student section, and goes on
\* to the following courses.
C5_NoSectionNoCalls ==
    script = GENERATE_SUBMISSIONS =>
        \A p \in Positions :
            trace[p].op \in {"enroll_user", "submit"}
               => HasTestStudentSection(trace[p].course)

-----------------------------------------------------------------------------
(* C6  No remote-service failure aborts a run.                             *)

ConfigLoaded == \A f \in DOMAIN files : files[f] = "ok"

\* C6: whatever remote calls fail, a run whose configuration loads visits
\* every configured course and ends with exit code 0.
C6_NeverAborted ==
    (pc = "done" /\ ConfigLoaded) =>
        /\ exit_code = 0
        /\ \A c \in DOMAIN course_list : Visited(run, c)

-----------------------------------------------------------------------------
(* C7  Configuration failure is fatal.                                     *)

\* C7: a run one of whose configuration files is missing or malformed ends
\* with exit code 1 and has issued no state-changing remote call.
C7_ConfigFailureFatal ==
    (pc = "done" /\ ~ConfigLoaded) =>
        /\ exit_code = 1
        /\ \A p \in Positions : trace[p].op \notin MutatingOps

-----------------------------------------------------------------------------
(* C8  Per-user isolation in enroll_and_submit.                            *)

\* C8: a submit call is issued for a submission spec in a course only if
\* that spec's user was resolved and enrolled in that course before, in the
\* same run.
C8_SubmitOnlyEnrolled ==
    \A p \in Positions :
        trace[p].op = "submit" =>
            \E q \in 1..(p - 1) :
                /\ trace[q].op = "enroll_user" /\ trace[q].ok
                /\ trace[q].course = trace[p].course
                /\ trace[q].who = trace[p].who

-----------------------------------------------------------------------------
(* C9  Reset section teardown order.                                       *)

\* the section of the given id of the course of entry c, before the run
SectionAtStart(c, id) ==
    CHOOSE x \in Range(remote_start.sections[course_list[c].canvas_id]) : x.id = id

\* the entry is a call on the section id of course entry c, or on one of
\* its enrollments
OnSection(e, c, id) ==
    /\ e.course = c
    /\ \/ e.op \in {"get_enrollments", "delete_section"} /\ e.id = id
       \/ e.op = "deactivate" /\ e.id \in Range(SectionAtStart(c, id).enrollments)

StillThere(c, id) ==
    \E x \in Range(remote_sections[course_list[c].canvas_id]) : x.id = id

MatchingSectionName(name, info) ==
    \/ name = (IF "test_student_section_name" \in DOMAIN info
               THEN info.test_student_section_name ELSE "Test Students")
    \/ name = (IF "grader_section_name" \in DOMAIN info
               THEN info.grader_section_name ELSE "Graders")

\* C9: delete_section is called on a section only after every enrollment of
\* the section has been deactivated with success; when listing the
\* enrollments, a deactivate or the delete fails, the section is not deleted
\* and the sections after it are still processed.
C9_SectionTeardown ==
    /\ \A p \in Positions :
          trace[p].op = "delete_section" =>
              LET c == trace[p].course
                  id == trace[p].id
              IN  /\ \A en \in Range(SectionAtStart(c, id).enrollments) :
                        \E q \in 1..(p - 1) :
                            /\ trace[q].course = c /\ trace[q].op = "deactivate"
                            /\ trace[q].id = en /\ trace[q].ok
                  /\ \A q \in 1..(p - 1) : OnSection(trace[q], c, id) => trace[q].ok
    /\ \A p \in Positions :
          ( /\ trace[p].op \in {"get_enrollments", "deactivate", "delete_section"}
            /\ ~trace[p].ok )
          => LET c == trace[p].course
                 id == CHOOSE k \in {x.id : x \in Range(remote_start.sections[
                                        course_list[c].canvas_id])} :
                           OnSection(trace[p], c, k)
             IN  /\ StillThere(c, id)
                 /\ \A q \in Positions :
                       (q > p /\ trace[q].course = c) => ~OnSection(trace[q], c, id)
                 /\ Passed(c) =>
                       \A x \in Range(remote_start.sections[course_list[c].canvas_id]) :
                           (x.id > id /\ MatchingSectionName(x.name, course_list[c]))
                              => \E q \in Positions :
                                    /\ q > p /\ trace[q].course = c
                                    /\ trace[q].op = "get_enrollments"
                                    /\ trace[q].id = x.id

\* the second deactivate of the first matching section failed: the section
\* is still there, and the next matching section was emptied and deleted
C9_Witness ==
    \E p \in Positions, q \in Positions :
        /\ p < q
        /\ trace[p].op = "deactivate" /\ ~trace[p].ok /\ trace[p].id = 12
        /\ trace[q].op = "delete_section" /\ trace[q].ok /\ trace[q].id = 2
        /\ trace[q].course = trace[p].course
        /\ StillThere(trace[p].course, 1)
        /\ ~StillThere(trace[p].course, 2)

-----------------------------------------------------------------------------
(* C10  Reset frame.                                                       *)

\* the course entries of the configuration that name the course of the id
EntriesOf(cid) == {c \in DOMAIN course_list : course_list[c].canvas_id = cid}

\* C10: reset deletes an assignment only if its name is one of the names
\* base1..baseN of the configuration, empties and deletes a section only if
\* its name is that of the test-student or the grader section; every other
\* assignment and every other section, with its enrollments, stays as it was.
C10_ResetFrame ==
    /\ \A p \in Positions :
          /\ trace[p].op = "delete_assignment" =>
                trace[p].name \in Range(Wanted(trace[p].course))
          /\ trace[p].op \in {"get_enrollments", "deactivate", "delete_section"} =>
                MatchingSectionName(trace[p].name, course_list[trace[p].course])
    /\ \A cid \in CourseIds :
          /\ \A x \in Range(remote_start.assignments[cid]) :
                (\A c \in EntriesOf(cid) : x.name \notin Range(Wanted(c)))
                   => x \in Range(remote_assignments[cid])
          /\ \A x \in Range(remote_start.sections[cid]) :
                (\A c \in EntriesOf(cid) : ~MatchingSectionName(x.name, course_list[c]))
                   => x \in Range(remote_sections[cid])

\* a reset is over that deleted an assignment and a section of a course and
\* left the other assignment and the other sections of the course alone
C10_Witness ==
    /\ pc = "done" /\ exit_code = 0
    /\ \E c \in DOMAIN course_list :
          LET cid == course_list[c].canvas_id IN
          /\ \E p \in Positions :
                trace[p].course = c /\ trace[p].op = "delete_assignment" /\ trace[p].ok
          /\ \E p \in Positions :
                trace[p].course = c /\ trace[p].op = "delete_section" /\ trace[p].ok
          /\ {x.name : x \in Range(remote_assignments[cid])} = {"Essay"}
          /\ {x.name : x \in Range(remote_sections[cid])} = {"Sandbox", "Lecture"}

=============================================================================
